---- MODULE Spec2Model ----
(***************************************************************************)
(* HtbShaper (tcconfig/shaper/htb.py) and run_command_helper               *)
(* (tcconfig/_common.py): the set_shaping orchestration, the identifier    *)
(* allocators and the commands they hand to the command executor.          *)
(***************************************************************************)
EXTENDS Integers, Sequences, FiniteSets, TLC

VARIABLES
    tc_obj,                 \* the shaping specification (self._tc_obj)
    class_listing,          \* what "tc class show" prints for the device
    qdisc_listing,          \* what "tc qdisc show" prints for the device
    qdisc_minor_id,         \* self.__qdisc_minor_id
    qdisc_minor_id_count,   \* self.__qdisc_minor_id_count
    netem_major_id,         \* self.__netem_major_id
    classid_wo_shaping,     \* self.__classid_wo_shaping
    history,                \* commands handed to the executor, with their results
    show_count,             \* number of "show" queries, per object kind
    pc,                     \* the phase set_shaping is about to run
    result,                 \* how set_shaping ended
    alloc_results,          \* values returned by __get_unique_qdisc_minor_id / __get_unique_netem_major_id
    get_results,            \* values returned by _get_qdisc_minor_id / _get_netem_qdisc_major_id
    waiting                 \* the other set_shaping invocations on the device, not running now

vars == <<tc_obj, class_listing, qdisc_listing, qdisc_minor_id, qdisc_minor_id_count,
          netem_major_id, classid_wo_shaping, history, show_count, pc, result,
          alloc_results, get_results, waiting>>

shaper_vars == <<qdisc_minor_id, qdisc_minor_id_count, netem_major_id, classid_wo_shaping>>

-----------------------------------------------------------------------------
(* Bounds of the model *)

\* existing classes of the target qdisc are numbered within 1..MaxMinor (Spec, SpecRule)
MaxMinor == 2
\* number of lines of a class listing (SpecMinor)
MaxClassItems == 3
\* number of lines of a qdisc listing (SpecNetem)
MaxQdiscItems == 3
\* number of allocator calls made on one shaper (SpecMinor, SpecNetem)
MaxCalls == 2

-----------------------------------------------------------------------------
(* Program constants *)

DEFAULT_CLASS_MINOR_ID == 1
EINVAL == 22
NETEM_MAJOR_ID_OFFSET == 128
BURST_DIVISOR == 80

\* Python's None for optional values: None is the empty tuple, a value v is <<v>>
None == <<>>
Some(v) == <<v>>
Value(opt) == opt[1]

\* TcCommandOutput
NOT_SET == "NOT_SET"
STDOUT == "STDOUT"

HTB == "htb"

-----------------------------------------------------------------------------
(* Text conversions *)

\* int(text, base) for a text given as its sequence of digit values
RECURSIVE ParseInt(_, _)
ParseInt(digits, base) ==
    IF digits = <<>> THEN 0
    ELSE ParseInt(SubSeq(digits, 1, Len(digits) - 1), base) * base + digits[Len(digits)]

\* "{:x}".format(n) / "{:d}".format(n) as a sequence of digit values
RECURSIVE FormatInt(_, _)
FormatInt(n, base) ==
    IF n < base THEN <<n>> ELSE Append(FormatInt(n \div base, base), n % base)

\* typepy.is_null_string / typepy.is_not_null_string on a string
is_null_string(s) == s = ""
is_not_null_string(s) == s # ""

-----------------------------------------------------------------------------
(* The command executor: SubprocessRunner and run_command_helper *)

\* lines the external tool may write to stderr; a stderr text is the set of these
\* lines it contains, and re.search(line, stderr) is membership
FILE_EXISTS == "RTNETLINK answers: File exists"
NOT_PERMITTED == "RTNETLINK answers: Operation not permitted"

\* self._tc_obj.REGEXP_FILE_EXISTS
REGEXP_FILE_EXISTS == FILE_EXISTS

re_search(pattern, text) == pattern \in text

\* what one run of the external tool can report: a success, a usage error (exit
\* code 1) and a kernel answer (exit code 2) with any of the stderr texts
Outcomes ==
    {[returncode |-> 0, stderr |-> {}], [returncode |-> 1, stderr |-> {}]}
    \cup [returncode : {2}, stderr : SUBSET {FILE_EXISTS, NOT_PERMITTED}]

\* exit codes of a command run without looking at its stderr
ReturnCodes == {0, 1, 2}

Return(code) == [kind |-> "return", code |-> code]
ReturnNone == [kind |-> "return"]
Raise(exception_class) == [kind |-> "raise", exc |-> exception_class]
SysExit(code) == [kind |-> "exit", code |-> code]

TcAlreadyExist == "TcAlreadyExist"

\* run_command_helper that raises the exception class on every failure
run_command_helper_always_raise(proc, ignore_error_msg_regexp, notice_msg, exception_class) ==
    IF proc.returncode = 0 THEN Return(0)
    ELSE IF exception_class # None
    THEN Raise(Value(exception_class))
    ELSE Return(proc.returncode)

run_command_helper(proc, ignore_error_msg_regexp, notice_msg, exception_class) ==
    IF proc.returncode = 0 THEN Return(0)
    ELSE IF ignore_error_msg_regexp # None
            /\ ~re_search(Value(ignore_error_msg_regexp), proc.stderr)
    THEN IF re_search(NOT_PERMITTED, proc.stderr)
         THEN SysExit(proc.returncode)
         ELSE Return(proc.returncode)
    ELSE IF exception_class # None
    THEN Raise(Value(exception_class))
    ELSE Return(proc.returncode)

-----------------------------------------------------------------------------
(* Collaborators of the shaper that the orchestration reads *)

\* self._tc_obj.qdisc_major_id_str
qdisc_major_id_str == FormatInt(tc_obj.qdisc_major_id, 16)

\* self._tc_obj.get_tc_command(subcommand): the command line prefix for a subcommand
get_tc_command(subcommand) == Some([tool |-> "tc", subcommand |-> subcommand])

\* get_no_limit_kbits(self._tc_device): the device's maximum rate
get_no_limit_kbits == 1000

\* self._get_tc_parent(parent)
_get_tc_parent(parent) == parent

\* run_tc_show(subcommand, device): the listing as the tool prints it
run_tc_show(subcommand) == IF subcommand = "class" THEN class_listing ELSE qdisc_listing

-----------------------------------------------------------------------------
(* Identifier allocators *)

\* first_free that does not look at the list
first_free_unchecked(next_id, exist_id_list) == next_id

\* the while loops of both allocators: first id from next_id upward not in the list
RECURSIVE first_free(_, _)
first_free(next_id, exist_id_list) ==
    IF \A i \in DOMAIN exist_id_list : exist_id_list[i] # next_id
    THEN next_id
    ELSE first_free(next_id + 1, exist_id_list)

\* findall_class with a pattern that leaves the major id out
RECURSIVE findall_class_any_major(_, _)
findall_class_any_major(listing, major) ==
    IF listing = <<>> THEN <<>>
    ELSE LET item == Head(listing)
             rest == findall_class_any_major(Tail(listing), major)
         IN IF item.algorithm = HTB /\ item.minor # <<>>
            THEN <<item>> \o rest
            ELSE rest

\* re.findall("class htb <major>[\:][0-9]+", listing): the lines of the listing
\* naming an htb class of the given major id
RECURSIVE findall_class(_, _)
findall_class(listing, major) ==
    IF listing = <<>> THEN <<>>
    ELSE LET item == Head(listing)
             rest == findall_class(Tail(listing), major)
         IN IF item.algorithm = HTB /\ item.major = major /\ item.minor # <<>>
            THEN <<item>> \o rest
            ELSE rest

\* __get_unique_qdisc_minor_id that skips the listing only when both conditions hold
__get_unique_qdisc_minor_id_and ==
    IF tc_obj.tc_command_output # NOT_SET /\ tc_obj.is_change_shaping_rule
    THEN [value |-> DEFAULT_CLASS_MINOR_ID + (qdisc_minor_id_count + 1),
          qdisc_minor_id_count |-> qdisc_minor_id_count + 1,
          shows |-> 0]
    ELSE LET exist_class_item_list == findall_class(run_tc_show("class"), qdisc_major_id_str)
             exist_class_minor_id_list ==
                 [i \in DOMAIN exist_class_item_list |->
                     ParseInt(exist_class_item_list[i].minor, 10)]
         IN [value |-> first_free(DEFAULT_CLASS_MINOR_ID, exist_class_minor_id_list),
             qdisc_minor_id_count |-> qdisc_minor_id_count,
             shows |-> 1]

\* __get_unique_qdisc_minor_id that advances the counter after using it
__get_unique_qdisc_minor_id_post_increment ==
    IF tc_obj.tc_command_output # NOT_SET \/ tc_obj.is_change_shaping_rule
    THEN [value |-> DEFAULT_CLASS_MINOR_ID + qdisc_minor_id_count,
          qdisc_minor_id_count |-> qdisc_minor_id_count + 1,
          shows |-> 0]
    ELSE LET exist_class_item_list == findall_class(run_tc_show("class"), qdisc_major_id_str)
             exist_class_minor_id_list ==
                 [i \in DOMAIN exist_class_item_list |->
                     ParseInt(exist_class_item_list[i].minor, 10)]
         IN [value |-> first_free(DEFAULT_CLASS_MINOR_ID, exist_class_minor_id_list),
             qdisc_minor_id_count |-> qdisc_minor_id_count,
             shows |-> 1]

__get_unique_qdisc_minor_id ==
    IF tc_obj.tc_command_output # NOT_SET \/ tc_obj.is_change_shaping_rule
    THEN [value |-> DEFAULT_CLASS_MINOR_ID + (qdisc_minor_id_count + 1),
          qdisc_minor_id_count |-> qdisc_minor_id_count + 1,
          shows |-> 0]
    ELSE LET exist_class_item_list == findall_class(run_tc_show("class"), qdisc_major_id_str)
             exist_class_minor_id_list ==
                 [i \in DOMAIN exist_class_item_list |->
                     ParseInt(exist_class_item_list[i].minor, 10)]
         IN [value |-> first_free(DEFAULT_CLASS_MINOR_ID, exist_class_minor_id_list),
             qdisc_minor_id_count |-> qdisc_minor_id_count,
             shows |-> 1]

\* the characters "[a-z]" matches
LowercaseLetters ==
    {"a", "b", "c", "d", "e", "f", "g", "h", "i", "j", "k", "l", "m",
     "n", "o", "p", "q", "r", "s", "t", "u", "v", "w", "x", "y", "z"}

\* an algorithm name as the text a qdisc listing shows: its characters
Characters(name) ==
    CASE name = "htb" -> <<"h", "t", "b">>
      [] name = "netem" -> <<"n", "e", "t", "e", "m">>
      [] name = "prio" -> <<"p", "r", "i", "o">>
      [] name = "pfifo" -> <<"p", "f", "i", "f", "o">>
      [] name = "pfifo_fast" -> <<"p", "f", "i", "f", "o", "_", "f", "a", "s", "t">>
      [] name = "fq_codel" -> <<"f", "q", "_", "c", "o", "d", "e", "l">>

\* re.findall("qdisc [a-z]+ [a-z0-9]+", listing): the lines of the listing whose
\* algorithm name is made of lowercase letters alone, whatever the name
RECURSIVE findall_qdisc(_)
findall_qdisc(listing) ==
    IF listing = <<>> THEN <<>>
    ELSE LET item == Head(listing)
             rest == findall_qdisc(Tail(listing))
         IN IF /\ item.algorithm # <<>>
               /\ \A k \in DOMAIN item.algorithm : item.algorithm[k] \in LowercaseLetters
               /\ item.handle # <<>>
            THEN <<item>> \o rest
            ELSE rest

__get_unique_netem_major_id ==
    LET exist_netem_item_list == findall_qdisc(run_tc_show("qdisc"))
        exist_netem_major_id_list ==
            [i \in DOMAIN exist_netem_item_list |->
                ParseInt(exist_netem_item_list[i].handle, 16)]
    IN [value |-> first_free(tc_obj.qdisc_major_id + NETEM_MAJOR_ID_OFFSET,
                             exist_netem_major_id_list),
        shows |-> 1]

\* _get_qdisc_minor_id that asks the allocator on every call
_get_qdisc_minor_id_recompute ==
    LET a == __get_unique_qdisc_minor_id
    IN [value |-> a.value,
        qdisc_minor_id |-> Some(a.value),
        qdisc_minor_id_count |-> a.qdisc_minor_id_count,
        shows |-> a.shows]

\* the memoizing accessors: the value returned and the fields as they are left
_get_qdisc_minor_id ==
    IF qdisc_minor_id = None
    THEN LET a == __get_unique_qdisc_minor_id
         IN [value |-> a.value,
             qdisc_minor_id |-> Some(a.value),
             qdisc_minor_id_count |-> a.qdisc_minor_id_count,
             shows |-> a.shows]
    ELSE [value |-> Value(qdisc_minor_id),
          qdisc_minor_id |-> qdisc_minor_id,
          qdisc_minor_id_count |-> qdisc_minor_id_count,
          shows |-> 0]

_get_netem_qdisc_major_id ==
    IF netem_major_id = None
    THEN LET a == __get_unique_netem_major_id
         IN [value |-> a.value, netem_major_id |-> Some(a.value), shows |-> a.shows]
    ELSE [value |-> Value(netem_major_id), netem_major_id |-> netem_major_id, shows |-> 0]

-----------------------------------------------------------------------------
(* The rule builder: each phase of set_shaping, given the results the executor
   reports for the commands the phase hands to it.  A phase yields its outcome
   (a return, a raised exception or a process exit), the commands it issued and
   the shaper fields as it leaves them. *)

Issued(step, command, proc) == [step |-> step, command |-> command, proc |-> proc]

__add_default_class(proc) ==
    LET base_command == get_tc_command("class")
        parent == qdisc_major_id_str
        classid == [major |-> qdisc_major_id_str, minor |-> DEFAULT_CLASS_MINOR_ID]
        message == IF tc_obj.is_add_shaping_rule
                   THEN None
                   ELSE Some("class already exists")
        command == [base_command |-> base_command, parent |-> parent,
                    classid |-> classid, algorithm |-> HTB,
                    rate |-> get_no_limit_kbits]
    IN [outcome |-> run_command_helper(proc, Some(REGEXP_FILE_EXISTS), message, None),
        commands |-> <<Issued("default_class", command, proc)>>,
        classid_wo_shaping |-> Some(classid)]

\* _make_qdisc without the early return of change mode
_make_qdisc_in_change_mode(proc_qdisc, proc_class) ==
    LET command == [base_command |-> get_tc_command("qdisc"), handle |-> qdisc_major_id_str,
                    algorithm |-> HTB, default |-> DEFAULT_CLASS_MINOR_ID]
        run == run_command_helper(proc_qdisc, Some(REGEXP_FILE_EXISTS), None,
                                  Some(TcAlreadyExist))
        default_class == __add_default_class(proc_class)
    IN IF run.kind # "return"
       THEN [outcome |-> run,
             commands |-> <<Issued("root_qdisc", command, proc_qdisc)>>,
             classid_wo_shaping |-> classid_wo_shaping]
       ELSE [outcome |-> default_class.outcome,
             commands |-> <<Issued("root_qdisc", command, proc_qdisc)>>
                          \o default_class.commands,
             classid_wo_shaping |-> default_class.classid_wo_shaping]

_make_qdisc(proc_qdisc, proc_class) ==
    LET base_command == get_tc_command("qdisc")
        handle == qdisc_major_id_str
        message == IF tc_obj.is_add_shaping_rule
                   THEN None
                   ELSE Some("qdisc already exists")
        command == [base_command |-> base_command, handle |-> handle,
                    algorithm |-> HTB, default |-> DEFAULT_CLASS_MINOR_ID]
        run == run_command_helper(proc_qdisc, Some(REGEXP_FILE_EXISTS), message,
                                  Some(TcAlreadyExist))
        default_class == __add_default_class(proc_class)
    IN IF base_command = None \/ tc_obj.is_change_shaping_rule
       THEN [outcome |-> Return(0), commands |-> <<>>,
             classid_wo_shaping |-> classid_wo_shaping]
       ELSE IF run.kind # "return"
       THEN [outcome |-> run,
             commands |-> <<Issued("root_qdisc", command, proc_qdisc)>>,
             classid_wo_shaping |-> classid_wo_shaping]
       ELSE [outcome |-> default_class.outcome,
             commands |-> <<Issued("root_qdisc", command, proc_qdisc)>>
                          \o default_class.commands,
             classid_wo_shaping |-> default_class.classid_wo_shaping]

_add_rate(proc) ==
    LET base_command == get_tc_command("class")
        parent == _get_tc_parent(qdisc_major_id_str)
        minor_id == _get_qdisc_minor_id
        classid == _get_tc_parent([major |-> qdisc_major_id_str, minor |-> minor_id.value])
        no_limit_kbits == get_no_limit_kbits
        kbits == IF tc_obj.bandwidth_rate = None
                 THEN no_limit_kbits
                 ELSE Value(tc_obj.bandwidth_rate)
        burst == IF kbits # no_limit_kbits
                 THEN Some([num |-> kbits, den |-> BURST_DIVISOR])
                 ELSE None
        command == [base_command |-> base_command, parent |-> parent,
                    classid |-> classid, algorithm |-> HTB,
                    rate |-> kbits, ceil |-> kbits,
                    burst |-> burst, cburst |-> burst]
        run == run_command_helper(proc, Some(REGEXP_FILE_EXISTS),
                                  Some("class already exists"), Some(TcAlreadyExist))
    IN [outcome |-> IF run.kind = "return" THEN ReturnNone ELSE run,
        commands |-> <<Issued("rate_class", command, proc)>>,
        qdisc_minor_id |-> minor_id.qdisc_minor_id,
        qdisc_minor_id_count |-> minor_id.qdisc_minor_id_count,
        shows |-> minor_id.shows]

\* AbstractShaper._set_netem: the network emulation qdisc under the rate-limited class
_set_netem(returncode) ==
    LET base_command == get_tc_command("qdisc")
        minor_id == _get_qdisc_minor_id
        parent == _get_tc_parent([major |-> qdisc_major_id_str, minor |-> minor_id.value])
        major_id == _get_netem_qdisc_major_id
        command == [base_command |-> base_command, parent |-> parent,
                    handle |-> major_id.value, algorithm |-> "netem"]
    IN [outcome |-> Return(returncode),
        commands |-> <<Issued("netem", command, [returncode |-> returncode, stderr |-> {}])>>,
        qdisc_minor_id |-> minor_id.qdisc_minor_id,
        qdisc_minor_id_count |-> minor_id.qdisc_minor_id_count,
        netem_major_id |-> major_id.netem_major_id,
        class_shows |-> minor_id.shows,
        qdisc_shows |-> major_id.shows]

\* "{:s}".format(None) gives "None" on Python 2 and raises TypeError on Python 3
PythonVersions == {2, 3}

_add_exclude_filter(returncode, python) ==
    LET base_command == get_tc_command("filter")
        fields == <<[key |-> "dst", value |-> tc_obj.exclude_dst_network],
                    [key |-> "src", value |-> tc_obj.exclude_src_network],
                    [key |-> "dport", value |-> tc_obj.exclude_dst_port],
                    [key |-> "sport", value |-> tc_obj.exclude_src_port]>>
        match(i) == IF is_not_null_string(fields[i].value) THEN <<fields[i]>> ELSE <<>>
        command == [base_command |-> base_command, parent |-> qdisc_major_id_str,
                    prio |-> 1,
                    matches |-> match(1) \o match(2) \o match(3) \o match(4),
                    flowid |-> classid_wo_shaping]
    IN IF \A i \in 1..4 : is_null_string(fields[i].value)
       THEN [outcome |-> ReturnNone, commands |-> <<>>]
       ELSE IF base_command = None
       THEN [outcome |-> Return(0), commands |-> <<>>]
       ELSE IF classid_wo_shaping = None /\ python = 3
       THEN [outcome |-> Raise("TypeError"), commands |-> <<>>]
       ELSE [outcome |-> Return(returncode),
             commands |-> <<Issued("exclude_filter", command,
                                   [returncode |-> returncode, stderr |-> {}])>>]

\* AbstractShaper._add_filter: the classification filter into the rate-limited class
_add_filter(returncode) ==
    LET base_command == get_tc_command("filter")
        minor_id == _get_qdisc_minor_id
        flowid == [major |-> qdisc_major_id_str, minor |-> minor_id.value]
        command == [base_command |-> base_command, parent |-> qdisc_major_id_str,
                    flowid |-> Some(flowid)]
    IN [outcome |-> Return(returncode),
        commands |-> <<Issued("filter", command, [returncode |-> returncode, stderr |-> {}])>>,
        qdisc_minor_id |-> minor_id.qdisc_minor_id,
        qdisc_minor_id_count |-> minor_id.qdisc_minor_id_count,
        shows |-> minor_id.shows]

-----------------------------------------------------------------------------
(* The device: what the commands that succeed leave behind for later listings *)

Contains(listing, item) == \E i \in DOMAIN listing : listing[i] = item

AddItem(listing, item) == IF Contains(listing, item) THEN listing ELSE Append(listing, item)

ClassItem(major, minor) == [algorithm |-> HTB, major |-> major, minor |-> FormatInt(minor, 10)]

RECURSIVE ClassesAfter(_, _)
ClassesAfter(listing, commands) ==
    IF commands = <<>> THEN listing
    ELSE LET c == Head(commands)
             created == c.proc.returncode = 0 /\ tc_obj.tc_command_output = NOT_SET
                        /\ c.step \in {"default_class", "rate_class"}
         IN ClassesAfter(IF created
                         THEN AddItem(listing, ClassItem(c.command.classid.major,
                                                         c.command.classid.minor))
                         ELSE listing,
                         Tail(commands))

RECURSIVE QdiscsAfter(_, _)
QdiscsAfter(listing, commands) ==
    IF commands = <<>> THEN listing
    ELSE LET c == Head(commands)
             created == c.proc.returncode = 0 /\ tc_obj.tc_command_output = NOT_SET
             item == IF c.step = "root_qdisc"
                     THEN [algorithm |-> Characters(HTB), handle |-> c.command.handle]
                     ELSE [algorithm |-> Characters("netem"),
                           handle |-> FormatInt(c.command.handle, 16)]
         IN QdiscsAfter(IF created /\ c.step \in {"root_qdisc", "netem"}
                        THEN AddItem(listing, item)
                        ELSE listing,
                        Tail(commands))

-----------------------------------------------------------------------------
(* The orchestrator: set_shaping, one action per phase *)

\* the phases with set_netem run ahead of add_rate
Phases_netem_first ==
    <<"make_qdisc", "set_netem", "add_rate", "add_exclude_filter", "add_filter">>

Phases == <<"make_qdisc", "add_rate", "set_netem", "add_exclude_filter", "add_filter">>

Running == [kind |-> "running"]

\* set_shaping that runs a phase again when the phase returns a failure code
set_shaping_retry(phase, outcome) ==
    LET i == CHOOSE k \in DOMAIN Phases : Phases[k] = phase
        go_on == IF i = Len(Phases)
                 THEN [pc |-> "done", result |-> Return(0)]
                 ELSE [pc |-> Phases[i + 1], result |-> Running]
    IN IF outcome.kind = "exit"
       THEN [pc |-> "done", result |-> outcome]
       ELSE IF outcome.kind = "raise"
       THEN IF phase \in {"make_qdisc", "add_rate"} /\ outcome.exc = TcAlreadyExist
            THEN IF ~tc_obj.is_add_shaping_rule
                 THEN [pc |-> "done", result |-> Return(EINVAL)]
                 ELSE go_on
            ELSE [pc |-> "done", result |-> outcome]
       ELSE IF outcome \in {Return(1), Return(2)}
       THEN [pc |-> phase, result |-> Running]
       ELSE go_on

\* what set_shaping does with the outcome of a phase: where it goes on and how it ends
set_shaping(phase, outcome) ==
    LET is_add_shaping_rule == tc_obj.is_add_shaping_rule
        i == CHOOSE k \in DOMAIN Phases : Phases[k] = phase
        go_on == IF i = Len(Phases)
                 THEN [pc |-> "done", result |-> Return(0)]
                 ELSE [pc |-> Phases[i + 1], result |-> Running]
    IN IF outcome.kind = "exit"
       THEN [pc |-> "done", result |-> outcome]
       ELSE IF outcome.kind = "raise"
       THEN IF phase \in {"make_qdisc", "add_rate"} /\ outcome.exc = TcAlreadyExist
            THEN IF ~is_add_shaping_rule
                 THEN [pc |-> "done", result |-> Return(EINVAL)]
                 ELSE go_on
            ELSE [pc |-> "done", result |-> outcome]
       ELSE go_on

Proceed(phase, phase_result) ==
    LET to == set_shaping(phase, phase_result.outcome)
    IN /\ pc' = to.pc
       /\ result' = to.result
       /\ history' = history \o phase_result.commands
       /\ class_listing' = ClassesAfter(class_listing, phase_result.commands)
       /\ qdisc_listing' = QdiscsAfter(qdisc_listing, phase_result.commands)
       /\ UNCHANGED <<tc_obj, alloc_results, get_results, waiting>>

MakeQdisc ==
    /\ pc = "make_qdisc"
    /\ \E proc_qdisc \in Outcomes, proc_class \in Outcomes :
          LET r == _make_qdisc(proc_qdisc, proc_class)
          IN /\ classid_wo_shaping' = r.classid_wo_shaping
             /\ Proceed("make_qdisc", r)
    /\ UNCHANGED <<qdisc_minor_id, qdisc_minor_id_count, netem_major_id, show_count>>

AddRate ==
    /\ pc = "add_rate"
    /\ \E proc \in Outcomes :
          LET r == _add_rate(proc)
          IN /\ qdisc_minor_id' = r.qdisc_minor_id
             /\ qdisc_minor_id_count' = r.qdisc_minor_id_count
             /\ show_count' = [show_count EXCEPT !.class = @ + r.shows]
             /\ Proceed("add_rate", r)
    /\ UNCHANGED <<netem_major_id, classid_wo_shaping>>

SetNetem ==
    /\ pc = "set_netem"
    /\ \E returncode \in ReturnCodes :
          LET r == _set_netem(returncode)
          IN /\ qdisc_minor_id' = r.qdisc_minor_id
             /\ qdisc_minor_id_count' = r.qdisc_minor_id_count
             /\ netem_major_id' = r.netem_major_id
             /\ show_count' = [show_count EXCEPT !.class = @ + r.class_shows,
                                                 !.qdisc = @ + r.qdisc_shows]
             /\ Proceed("set_netem", r)
    /\ UNCHANGED classid_wo_shaping

AddExcludeFilter ==
    /\ pc = "add_exclude_filter"
    /\ \E returncode \in ReturnCodes, python \in PythonVersions :
          Proceed("add_exclude_filter", _add_exclude_filter(returncode, python))
    /\ UNCHANGED <<shaper_vars, show_count>>

AddFilter ==
    /\ pc = "add_filter"
    /\ \E returncode \in ReturnCodes :
          LET r == _add_filter(returncode)
          IN /\ qdisc_minor_id' = r.qdisc_minor_id
             /\ qdisc_minor_id_count' = r.qdisc_minor_id_count
             /\ show_count' = [show_count EXCEPT !.class = @ + r.shows]
             /\ Proceed("add_filter", r)
    /\ UNCHANGED <<netem_major_id, classid_wo_shaping>>

-----------------------------------------------------------------------------
(* Inputs *)

\* the (add, change) flags of the three modes: neither, add, change
Modes == {<<FALSE, FALSE>>, <<TRUE, FALSE>>, <<FALSE, TRUE>>}

TcObj(mode, output, major, rate, exclude) ==
    [is_add_shaping_rule |-> mode[1],
     is_change_shaping_rule |-> mode[2],
     tc_command_output |-> output,
     qdisc_major_id |-> major,
     bandwidth_rate |-> rate,
     exclude_dst_network |-> exclude[1],
     exclude_src_network |-> exclude[2],
     exclude_dst_port |-> exclude[3],
     exclude_src_port |-> exclude[4]]

NoExclude == <<"", "", "", "">>

AllExcludes == {""} \X {"", "192.168.0.0/24"} \X {"", "80"} \X {"", "8080"}
               \cup {"10.0.0.0/8"} \X {"", "192.168.0.0/24"} \X {"", "80"} \X {"", "8080"}

\* the class listing of a device whose classes of the given major are numbered by ids
RECURSIVE ShowClasses(_, _)
ShowClasses(major, ids) ==
    IF ids = {} THEN <<>>
    ELSE LET m == CHOOSE x \in ids : \A y \in ids : x <= y
         IN <<ClassItem(major, m)>> \o ShowClasses(major, ids \ {m})

\* all sequences over items of length at most n
RECURSIVE SeqsUpTo(_, _)
SeqsUpTo(items, n) ==
    IF n = 0 THEN {<<>>}
    ELSE LET shorter == SeqsUpTo(items, n - 1)
         IN shorter \cup {Append(q, x) : q \in shorter, x \in items}

InitShaper ==
    /\ qdisc_minor_id = None
    /\ qdisc_minor_id_count = 0
    /\ netem_major_id = None
    /\ classid_wo_shaping = None
    /\ history = <<>>
    /\ show_count = [class |-> 0, qdisc |-> 0]
    /\ result = Running
    /\ alloc_results = <<>>
    /\ get_results = <<>>

\* set_shaping in every mode on devices with and without classes and a netem qdisc
Init ==
    /\ tc_obj \in {TcObj(mode, output, 26, rate, exclude) :
                     mode \in Modes, output \in {NOT_SET, STDOUT},
                     rate \in {Some(100)},
                     exclude \in {NoExclude, <<"10.0.0.0/8", "", "", "">>}}
    /\ class_listing \in {ShowClasses(FormatInt(26, 16), ids) : ids \in SUBSET (1..MaxMinor)}
    /\ qdisc_listing \in {<<>>, <<[algorithm |-> Characters("netem"),
                                   handle |-> FormatInt(26 + 128, 16)]>>}
    /\ pc = "make_qdisc"
    /\ InitShaper
    /\ waiting = <<>>

Next == MakeQdisc \/ AddRate \/ SetNetem \/ AddExcludeFilter \/ AddFilter

Spec == Init /\ [][Next]_vars

\* set_shaping on one device for every rate and for every exclusion criterion
InitRule ==
    /\ tc_obj \in {TcObj(mode, NOT_SET, 26, rate, NoExclude) :
                     mode \in Modes,
                     rate \in {None, Some(0), Some(100), Some(get_no_limit_kbits)}}
                \cup {TcObj(mode, NOT_SET, 26, None, exclude) :
                     mode \in Modes, exclude \in AllExcludes}
    /\ class_listing = <<>>
    /\ qdisc_listing = <<>>
    /\ pc = "make_qdisc"
    /\ InitShaper
    /\ waiting = <<>>

SpecRule == InitRule /\ [][Next]_vars

-----------------------------------------------------------------------------
(* The allocators alone: calls made on one shaper, outside set_shaping *)

Calls == Len(alloc_results) + Len(get_results)

CallGetUniqueQdiscMinorId ==
    /\ pc = "minor"
    /\ Calls < MaxCalls
    /\ LET a == __get_unique_qdisc_minor_id
       IN /\ alloc_results' = Append(alloc_results, a.value)
          /\ qdisc_minor_id_count' = a.qdisc_minor_id_count
          /\ show_count' = [show_count EXCEPT !.class = @ + a.shows]
    /\ UNCHANGED <<tc_obj, class_listing, qdisc_listing, qdisc_minor_id, netem_major_id,
                   classid_wo_shaping, history, pc, result, get_results, waiting>>

CallGetQdiscMinorId ==
    /\ pc = "minor"
    /\ Calls < MaxCalls
    /\ LET a == _get_qdisc_minor_id
       IN /\ get_results' = Append(get_results, a.value)
          /\ qdisc_minor_id' = a.qdisc_minor_id
          /\ qdisc_minor_id_count' = a.qdisc_minor_id_count
          /\ show_count' = [show_count EXCEPT !.class = @ + a.shows]
    /\ UNCHANGED <<tc_obj, class_listing, qdisc_listing, netem_major_id,
                   classid_wo_shaping, history, pc, result, alloc_results, waiting>>

CallGetUniqueNetemMajorId ==
    /\ pc = "netem"
    /\ Calls < MaxCalls
    /\ LET a == __get_unique_netem_major_id
       IN /\ alloc_results' = Append(alloc_results, a.value)
          /\ show_count' = [show_count EXCEPT !.qdisc = @ + a.shows]
    /\ UNCHANGED <<tc_obj, class_listing, qdisc_listing, shaper_vars, history, pc, result,
                   get_results, waiting>>

CallGetNetemQdiscMajorId ==
    /\ pc = "netem"
    /\ Calls < MaxCalls
    /\ LET a == _get_netem_qdisc_major_id
       IN /\ get_results' = Append(get_results, a.value)
          /\ netem_major_id' = a.netem_major_id
          /\ show_count' = [show_count EXCEPT !.qdisc = @ + a.shows]
    /\ UNCHANGED <<tc_obj, class_listing, qdisc_listing, qdisc_minor_id,
                   qdisc_minor_id_count, classid_wo_shaping, history, pc, result,
                   alloc_results, waiting>>

\* the lines a class listing is made of: htb classes of the target qdisc 1a: and of
\* another qdisc 1b:, and a class of another algorithm
ClassItems ==
    [algorithm : {HTB}, major : {<<1, 10>>}, minor : {<<1>>, <<2>>, <<3>>, <<1, 2>>}]
    \cup [algorithm : {HTB}, major : {<<1, 11>>}, minor : {<<1>>, <<2>>}]
    \cup [algorithm : {"prio"}, major : {<<1, 10>>}, minor : {<<1>>}]

InitMinor ==
    /\ tc_obj \in {TcObj(mode, output, 26, None, NoExclude) :
                     mode \in Modes, output \in {NOT_SET, STDOUT}}
    /\ class_listing \in SeqsUpTo(ClassItems, MaxClassItems)
    /\ qdisc_listing = <<>>
    /\ pc = "minor"
    /\ InitShaper
    /\ waiting = <<>>

NextMinor == CallGetUniqueQdiscMinorId \/ CallGetQdiscMinorId

SpecMinor == InitMinor /\ [][NextMinor]_vars

\* the lines a qdisc listing is made of: netem qdiscs at 8a: 8b: 8e: 9a: 9b: 138:,
\* the htb root a:, a prio qdisc at 8c:, and a qdisc whose name is not made of
\* lowercase letters alone
QdiscItems ==
    [algorithm : {Characters("netem")},
     handle : {<<8, 10>>, <<8, 11>>, <<8, 14>>, <<9, 10>>, <<9, 11>>, <<1, 3, 8>>}]
    \cup {[algorithm |-> Characters(HTB), handle |-> <<10>>],
          [algorithm |-> Characters("prio"), handle |-> <<8, 12>>],
          [algorithm |-> Characters("pfifo_fast"), handle |-> <<8, 10>>]}

InitNetem ==
    /\ tc_obj \in {TcObj(<<TRUE, FALSE>>, NOT_SET, major, None, NoExclude) : major \in {10, 26}}
    /\ class_listing = <<>>
    /\ qdisc_listing \in SeqsUpTo(QdiscItems, MaxQdiscItems)
    /\ pc = "netem"
    /\ InitShaper
    /\ waiting = <<>>

NextNetem == CallGetUniqueNetemMajorId \/ CallGetNetemQdiscMajorId

SpecNetem == InitNetem /\ [][NextNetem]_vars

-----------------------------------------------------------------------------
(* run_command_helper alone: calls made with every combination of arguments *)

CallRunCommandHelper ==
    /\ pc = "helper"
    /\ Len(history) < MaxCalls
    /\ \E proc \in Outcomes,
          ignore_error_msg_regexp \in {None, Some(REGEXP_FILE_EXISTS)},
          notice_msg \in {None, Some("already exists")},
          exception_class \in {None, Some(TcAlreadyExist)} :
          LET r == run_command_helper(proc, ignore_error_msg_regexp, notice_msg,
                                      exception_class)
              command == [ignore_error_msg_regexp |-> ignore_error_msg_regexp,
                          notice_msg |-> notice_msg,
                          exception_class |-> exception_class]
          IN /\ history' = Append(history, Issued("helper", command, proc))
             /\ result' = r
             /\ pc' = IF r.kind = "exit" THEN "done" ELSE pc
    /\ UNCHANGED <<tc_obj, class_listing, qdisc_listing, shaper_vars, show_count,
                   alloc_results, get_results, waiting>>

InitHelper ==
    /\ tc_obj = TcObj(<<FALSE, FALSE>>, NOT_SET, 26, None, NoExclude)
    /\ class_listing = <<>>
    /\ qdisc_listing = <<>>
    /\ pc = "helper"
    /\ InitShaper
    /\ waiting = <<>>

NextHelper == CallRunCommandHelper

SpecHelper == InitHelper /\ [][NextHelper]_vars

-----------------------------------------------------------------------------
(* Two set_shaping invocations on one device: two processes, each with its own
   shaper, that share what the device lists *)

\* what belongs to the running invocation: its shaper and its place in set_shaping
Invocation ==
    [tc_obj |-> tc_obj,
     qdisc_minor_id |-> qdisc_minor_id,
     qdisc_minor_id_count |-> qdisc_minor_id_count,
     netem_major_id |-> netem_major_id,
     classid_wo_shaping |-> classid_wo_shaping,
     history |-> history,
     show_count |-> show_count,
     pc |-> pc,
     result |-> result]

\* the invocation that is not running
Other == Head(waiting)

\* the waiting invocation gets to run and the running one waits
Resume ==
    /\ tc_obj' = Other.tc_obj
    /\ qdisc_minor_id' = Other.qdisc_minor_id
    /\ qdisc_minor_id_count' = Other.qdisc_minor_id_count
    /\ netem_major_id' = Other.netem_major_id
    /\ classid_wo_shaping' = Other.classid_wo_shaping
    /\ history' = Other.history
    /\ show_count' = Other.show_count
    /\ pc' = Other.pc
    /\ result' = Other.result
    /\ waiting' = <<Invocation>>
    /\ UNCHANGED <<class_listing, qdisc_listing, alloc_results, get_results>>

\* concurrent invocations: the running one can lose the processor at any point
Preempt ==
    /\ waiting # <<>>
    /\ Other.pc # "done"
    /\ Resume

\* serialized invocations: the next one starts when the running one is over
RunNext ==
    /\ waiting # <<>>
    /\ pc = "done"
    /\ Other.pc # "done"
    /\ Resume

\* AddRateGetQdiscMinorId that reserves the id on the device as it allocates it
AddRateGetQdiscMinorId_reserving ==
    /\ pc = "add_rate"
    /\ qdisc_minor_id = None
    /\ LET a == _get_qdisc_minor_id
       IN /\ qdisc_minor_id' = a.qdisc_minor_id
          /\ qdisc_minor_id_count' = a.qdisc_minor_id_count
          /\ show_count' = [show_count EXCEPT !.class = @ + a.shows]
          /\ class_listing' = AddItem(class_listing, ClassItem(qdisc_major_id_str, a.value))
    /\ UNCHANGED <<tc_obj, qdisc_listing, netem_major_id, classid_wo_shaping,
                   history, pc, result, alloc_results, get_results, waiting>>

\* _add_rate up to the call of _get_qdisc_minor_id: the class listing is read and the
\* minor id kept in the shaper; the class command is handed to the executor later
AddRateGetQdiscMinorId ==
    /\ pc = "add_rate"
    /\ qdisc_minor_id = None
    /\ LET a == _get_qdisc_minor_id
       IN /\ qdisc_minor_id' = a.qdisc_minor_id
          /\ qdisc_minor_id_count' = a.qdisc_minor_id_count
          /\ show_count' = [show_count EXCEPT !.class = @ + a.shows]
    /\ UNCHANGED <<tc_obj, class_listing, qdisc_listing, netem_major_id, classid_wo_shaping,
                   history, pc, result, alloc_results, get_results, waiting>>

\* the results of the tool in the runs of two invocations: a success, a usage error
\* or a file-exists answer for the root and class commands, a success for the
\* commands of the later phases
PairOutcomes ==
    {[returncode |-> 0, stderr |-> {}], [returncode |-> 1, stderr |-> {}],
     [returncode |-> 2, stderr |-> {FILE_EXISTS}]}

PairScope ==
    \A i \in DOMAIN history :
        /\ history[i].proc \in PairOutcomes
        /\ history[i].step \in {"netem", "exclude_filter", "filter"}
              => history[i].proc.returncode = 0

\* two invocations in execute mode with the add flag, for the same device and qdisc
\* major id, one shaping to 100 Kbit/s and one to 200 Kbit/s; the device is new, or
\* has the root with its default class, or has a rate-limited class as well
InitPair ==
    /\ tc_obj = TcObj(<<TRUE, FALSE>>, NOT_SET, 26, Some(100), NoExclude)
    /\ class_listing \in {ShowClasses(FormatInt(26, 16), ids) : ids \in {{}, {1}, {1, 2}}}
    /\ qdisc_listing = <<>>
    /\ pc = "make_qdisc"
    /\ InitShaper
    /\ waiting = <<[tc_obj |-> TcObj(<<TRUE, FALSE>>, NOT_SET, 26, Some(200), NoExclude),
                    qdisc_minor_id |-> None,
                    qdisc_minor_id_count |-> 0,
                    netem_major_id |-> None,
                    classid_wo_shaping |-> None,
                    history |-> <<>>,
                    show_count |-> [class |-> 0, qdisc |-> 0],
                    pc |-> "make_qdisc",
                    result |-> Running]>>

\* the phases of set_shaping in the runs of two invocations
PairMakeQdisc == MakeQdisc /\ PairScope'
PairAddRate == AddRate /\ PairScope'
PairSetNetem == SetNetem /\ PairScope'
PairAddExcludeFilter == AddExcludeFilter /\ PairScope'
PairAddFilter == AddFilter /\ PairScope'

\* The steps of concurrent invocations: an invocation can lose the processor
\* wherever it waits for the external tool, so each step ends with one run of the
\* tool, a listing read or a command.

\* _make_qdisc up to the result of the root command: the phase is over when it is
\* skipped or the root command raises or exits, otherwise __add_default_class is next
MakeQdiscRoot ==
    /\ pc = "make_qdisc"
    /\ \E proc_qdisc \in Outcomes :
          LET r == _make_qdisc(proc_qdisc, proc_qdisc)
          IN IF Len(r.commands) < 2
             THEN /\ classid_wo_shaping' = r.classid_wo_shaping
                  /\ Proceed("make_qdisc", r)
             ELSE /\ history' = Append(history, Head(r.commands))
                  /\ qdisc_listing' = QdiscsAfter(qdisc_listing, <<Head(r.commands)>>)
                  /\ pc' = "add_default_class"
                  /\ UNCHANGED <<tc_obj, class_listing, classid_wo_shaping, result,
                                 alloc_results, get_results, waiting>>
    /\ UNCHANGED <<qdisc_minor_id, qdisc_minor_id_count, netem_major_id, show_count>>
    /\ PairScope'

\* the rest of _make_qdisc: __add_default_class
MakeQdiscAddDefaultClass ==
    /\ pc = "add_default_class"
    /\ \E proc_class \in Outcomes :
          LET r == __add_default_class(proc_class)
          IN /\ classid_wo_shaping' = r.classid_wo_shaping
             /\ Proceed("make_qdisc", r)
    /\ UNCHANGED <<qdisc_minor_id, qdisc_minor_id_count, netem_major_id, show_count>>
    /\ PairScope'

\* the rest of _add_rate: the class command, with the minor id kept in the shaper
AddRateCommand ==
    /\ qdisc_minor_id # None
    /\ PairAddRate

\* _set_netem up to the call of _get_netem_qdisc_major_id: the qdisc listing is read
\* and the major id kept in the shaper
SetNetemGetNetemQdiscMajorId ==
    /\ pc = "set_netem"
    /\ netem_major_id = None
    /\ LET a == _get_netem_qdisc_major_id
       IN /\ netem_major_id' = a.netem_major_id
          /\ show_count' = [show_count EXCEPT !.qdisc = @ + a.shows]
    /\ UNCHANGED <<tc_obj, class_listing, qdisc_listing, qdisc_minor_id,
                   qdisc_minor_id_count, classid_wo_shaping, history, pc, result,
                   alloc_results, get_results, waiting>>

\* the rest of _set_netem: the netem command, with the major id kept in the shaper
SetNetemCommand ==
    /\ netem_major_id # None
    /\ PairSetNetem

NextRace ==
    \/ MakeQdiscRoot
    \/ MakeQdiscAddDefaultClass
    \/ AddRateGetQdiscMinorId
    \/ AddRateCommand
    \/ SetNetemGetNetemQdiscMajorId
    \/ SetNetemCommand
    \/ PairAddExcludeFilter
    \/ PairAddFilter
    \/ Preempt

SpecRace == InitPair /\ [][NextRace]_vars

NextSerial ==
    \/ PairMakeQdisc
    \/ PairAddRate
    \/ PairSetNetem
    \/ PairAddExcludeFilter
    \/ PairAddFilter
    \/ RunNext

SpecSerial == InitPair /\ [][NextSerial]_vars

-----------------------------------------------------------------------------
(* Vocabulary of the properties *)

Done == pc = "done"

IssuedAt(step) == {i \in DOMAIN history : history[i].step = step}

Failed(c) == c.proc.returncode # 0
FileExistsFailure(c) == Failed(c) /\ re_search(REGEXP_FILE_EXISTS, c.proc.stderr)
NotPermittedFailure(c) == Failed(c) /\ re_search(NOT_PERMITTED, c.proc.stderr)
GenericFailure(c) == Failed(c) /\ ~FileExistsFailure(c) /\ ~NotPermittedFailure(c)

AddMode == tc_obj.is_add_shaping_rule
ChangeMode == tc_obj.is_change_shaping_rule /\ ~tc_obj.is_add_shaping_rule
ExecuteMode == tc_obj.tc_command_output = NOT_SET

\* the root-discipline creation command failed with the file-exists condition
RootFileExists == \E i \in IssuedAt("root_qdisc") : FileExistsFailure(history[i])

-----------------------------------------------------------------------------
(* C1 *)

\* C1 as stated: in add mode, when the root-discipline creation command fails with
\* the file-exists condition, set_shaping returns EINVAL and issues no rate-limited
\* class command.
C1_Original ==
    (AddMode /\ RootFileExists)
        => /\ IssuedAt("rate_class") = {}
           /\ Done => result = Return(EINVAL)

-----------------------------------------------------------------------------
(* C2 *)

\* C2 as stated: in change mode, with every root or class creation command that is
\* issued reporting the file-exists condition, set_shaping runs all five phases and
\* returns 0.
C2_Original ==
    (/\ ChangeMode
     /\ Done
     /\ \A i \in IssuedAt("root_qdisc") \cup IssuedAt("default_class")
                 \cup IssuedAt("rate_class") :
           history[i].proc = [returncode |-> 2, stderr |-> {FILE_EXISTS}])
        => /\ result = Return(0)
           /\ IssuedAt("netem") # {}
           /\ IssuedAt("filter") # {}

-----------------------------------------------------------------------------
(* C3 *)

FirstFailure == CHOOSE i \in DOMAIN history :
                    /\ Failed(history[i])
                    /\ \A j \in 1..(i - 1) : ~Failed(history[j])

\* C3: set_shaping returns 0 only when every phase succeeded; when commands fail
\* with a generic error (not file-exists, not operation-not-permitted) what
\* set_shaping returns is the exit code of the first one that failed.
C3_Original ==
    (/\ Done /\ result.kind = "return"
     /\ \E i \in DOMAIN history : Failed(history[i])
     /\ \A i \in DOMAIN history : Failed(history[i]) => GenericFailure(history[i]))
        => result = Return(history[FirstFailure].proc.returncode)

-----------------------------------------------------------------------------
(* C4 *)

GuardedSteps == {"root_qdisc", "default_class", "rate_class"}

\* C4: whenever a command of a guarded phase fails with a stderr containing the
\* operation-not-permitted error, whatever else the stderr contains, the run ends
\* at once with the tool's exit code and no further command is issued.
C4_Original ==
    \A i \in DOMAIN history :
        (history[i].step \in GuardedSteps /\ NotPermittedFailure(history[i]))
            => /\ i = Len(history)
               /\ Done
               /\ result = SysExit(history[i].proc.returncode)

-----------------------------------------------------------------------------
(* C5 *)

\* the smallest integer from lowest upward that is not in ids
SmallestFree(lowest, ids) ==
    CHOOSE n \in lowest..(lowest + Cardinality(ids)) :
        /\ n \notin ids
        /\ \A m \in lowest..(n - 1) : m \in ids

\* the minor ids, read as decimal numbers, of the htb classes the listing shows under
\* the target qdisc major id
TargetMinorIds ==
    {ParseInt(class_listing[i].minor, 10) :
        i \in {j \in DOMAIN class_listing :
                  /\ class_listing[j].algorithm = HTB
                  /\ class_listing[j].major = FormatInt(tc_obj.qdisc_major_id, 16)}}

OtherMajorMinorIds ==
    {ParseInt(class_listing[i].minor, 10) :
        i \in {j \in DOMAIN class_listing :
                  class_listing[j].major # FormatInt(tc_obj.qdisc_major_id, 16)}}

\* C5: in execute mode and not change mode the class minor id allocator returns the
\* smallest integer n >= 1 that is not the minor id of a class listed under the
\* target qdisc major id, whatever classes are listed under other major ids.
C5_SmallestFreeMinorId ==
    (ExecuteMode /\ ~tc_obj.is_change_shaping_rule)
        => /\ \A i \in DOMAIN alloc_results :
                 alloc_results[i] = SmallestFree(1, TargetMinorIds)
           /\ \A i \in DOMAIN get_results :
                 get_results[i] = SmallestFree(1, TargetMinorIds)

C5_Witness ==
    /\ ExecuteMode /\ ~tc_obj.is_change_shaping_rule
    /\ TargetMinorIds = {1, 3}
    /\ 2 \in OtherMajorMinorIds
    /\ alloc_results = <<2>>

-----------------------------------------------------------------------------
(* C6 *)

\* C6: the minor id add_rate uses for the rate-limited class is greater than 1, the
\* id reserved for the default class, in every mode and after every outcome of
\* make_qdisc.
C6_Original ==
    \A i \in IssuedAt("rate_class") :
        history[i].command.classid.minor > DEFAULT_CLASS_MINOR_ID

-----------------------------------------------------------------------------
(* C7 *)

\* the qdisc major ids present on the device: the handles, read as base-16 numbers,
\* of all the qdiscs the device lists
QdiscMajorIds ==
    {ParseInt(qdisc_listing[i].handle, 16) : i \in DOMAIN qdisc_listing}

\* C7: for every set Q of qdisc major ids present on the device, the
\* network-emulation major id allocator returns the smallest integer
\* n >= qdisc_major_id + 128 that is not in Q, the ids of the listing being read as
\* base-16 numbers.
C7_Original ==
    /\ \A i \in DOMAIN alloc_results :
          alloc_results[i] = SmallestFree(tc_obj.qdisc_major_id + 128, QdiscMajorIds)
    /\ \A i \in DOMAIN get_results :
          get_results[i] = SmallestFree(tc_obj.qdisc_major_id + 128, QdiscMajorIds)

-----------------------------------------------------------------------------
(* C8 *)

\* C8: in output-only mode the class minor id allocation runs no class "show"
\* query, and successive allocation calls on one shaper return strictly increasing
\* minor ids, DEFAULT_CLASS_MINOR_ID plus the number of allocations made so far,
\* whatever classes the device has.
C8_OutputOnlyAllocation ==
    ~ExecuteMode
        => /\ show_count.class = 0
           /\ \A i, j \in DOMAIN alloc_results :
                 i < j => alloc_results[i] < alloc_results[j]
           /\ \A i \in DOMAIN alloc_results :
                 /\ alloc_results[i] > DEFAULT_CLASS_MINOR_ID
                 /\ alloc_results[i] <= DEFAULT_CLASS_MINOR_ID + qdisc_minor_id_count
                 /\ get_results = <<>> => alloc_results[i] = DEFAULT_CLASS_MINOR_ID + i
           /\ (alloc_results # <<>> /\ qdisc_minor_id = None)
                 => alloc_results[Len(alloc_results)]
                        = DEFAULT_CLASS_MINOR_ID + qdisc_minor_id_count

C8_Witness ==
    /\ ~ExecuteMode /\ ~tc_obj.is_change_shaping_rule
    /\ {2, 3} \subseteq TargetMinorIds
    /\ alloc_results = <<2, 3>>

-----------------------------------------------------------------------------
(* C9 *)

ExcludeFields ==
    <<[key |-> "dst", value |-> tc_obj.exclude_dst_network],
      [key |-> "src", value |-> tc_obj.exclude_src_network],
      [key |-> "dport", value |-> tc_obj.exclude_dst_port],
      [key |-> "sport", value |-> tc_obj.exclude_src_port]>>

NonEmptyExcludeFields == {ExcludeFields[i] : i \in {j \in 1..4 : ExcludeFields[j].value # ""}}

\* the exclusion filter phase has run
ExcludePhaseOver ==
    \/ pc = "add_filter"
    \/ IssuedAt("filter") # {}
    \/ Done /\ result = Raise("TypeError")

\* C9: the exclusion filter phase issues no command when all four match fields are
\* empty; when one is not, it issues exactly one filter command, with one match
\* clause for each non-empty field and none for an empty one; no filter command
\* without a match clause is issued.
C9_Original ==
    /\ NonEmptyExcludeFields = {} => IssuedAt("exclude_filter") = {}
    /\ \A i \in IssuedAt("exclude_filter") :
          LET matches == history[i].command.matches
          IN /\ matches # <<>>
             /\ {matches[k] : k \in DOMAIN matches} = NonEmptyExcludeFields
             /\ Len(matches) = Cardinality(NonEmptyExcludeFields)
    /\ (ExcludePhaseOver /\ NonEmptyExcludeFields # {})
          => Cardinality(IssuedAt("exclude_filter")) = 1

-----------------------------------------------------------------------------
(* C10 *)

\* C10: the rate-limited class command carries the same value as rate and as ceil;
\* with the bandwidth rate unspecified (absent, or 0) the value is the device's
\* no-limit value and burst and cburst are left out; burst and cburst are there
\* exactly when an explicit rate other than the no-limit value is requested.
C10_Original ==
    \A i \in IssuedAt("rate_class") :
        LET c == history[i].command
            unspecified == tc_obj.bandwidth_rate \in {None, Some(0)}
        IN /\ c.rate = c.ceil
           /\ unspecified => /\ c.rate = get_no_limit_kbits
                             /\ c.burst = None /\ c.cburst = None
           /\ (c.burst # None /\ c.cburst # None)
                 <=> (~unspecified /\ tc_obj.bandwidth_rate # Some(get_no_limit_kbits))

-----------------------------------------------------------------------------
(* C11 *)

\* the latest call of run_command_helper: the result the tool reported and the
\* arguments of the call
LastCall == history[Len(history)]

-----------------------------------------------------------------------------
(* C12 *)

\* the place of a command in the order root discipline, default class, rate-limited
\* class, network emulation, exclusion filter, classification filter
StepOrder ==
    <<"root_qdisc", "default_class", "rate_class", "netem", "exclude_filter", "filter">>

StepRank(step) == CHOOSE k \in DOMAIN StepOrder : StepOrder[k] = step

\* C12: in every run of set_shaping the commands are issued in the order root
\* discipline, default class, rate-limited class, network emulation, exclusion
\* filter, classification filter: each command is issued after the commands of the
\* earlier phases and with their results received, and no command of an earlier
\* phase is issued after a command of a later phase.
C12_CommandOrder ==
    /\ \A i, j \in DOMAIN history :
          i < j => StepRank(history[i].step) < StepRank(history[j].step)
    /\ \A i \in DOMAIN history : history[i].proc.returncode \in ReturnCodes
    /\ \A i \in DOMAIN Phases :
          pc = Phases[i]
              => \A j \in DOMAIN history :
                    StepRank(history[j].step) <= (IF i = 1 THEN 0 ELSE i)

\* a run in which all six commands were issued
C12_Witness ==
    /\ Done /\ result = Return(0)
    /\ [i \in DOMAIN history |-> history[i].step] = StepOrder

-----------------------------------------------------------------------------
(* C13 *)

\* the class id of the default no-shaping class: <qdisc major>:1
DefaultClassId == [major |-> FormatInt(tc_obj.qdisc_major_id, 16), minor |-> 1]

\* C13: whenever the exclusion filter command is issued its flowid target is the
\* class id of the default class, <qdisc major>:1, in every mode and after every
\* outcome of make_qdisc, and building the command never fails for want of that
\* class id.
C13_Original ==
    /\ \A i \in IssuedAt("exclude_filter") :
          history[i].command.flowid = Some(DefaultClassId)
    /\ result # Raise("TypeError")

-----------------------------------------------------------------------------
(* C14 *)

\* C14: in change mode set_shaping never issues a root-discipline creation
\* command; in every other mode (a qdisc command is always available here) it
\* issues that command exactly once, as its first command, so before any class
\* command.
C14_RootCommand ==
    /\ tc_obj.is_change_shaping_rule => IssuedAt("root_qdisc") = {}
    /\ (~tc_obj.is_change_shaping_rule /\ pc # "make_qdisc")
          => IssuedAt("root_qdisc") = {1}

\* a whole run in change mode that never created the root discipline
C14_Witness ==
    /\ tc_obj.is_change_shaping_rule
    /\ Done /\ result = Return(0)
    /\ IssuedAt("root_qdisc") = {}
    /\ IssuedAt("rate_class") # {} /\ IssuedAt("filter") # {}

-----------------------------------------------------------------------------
(* C15 *)

\* the class minor ids the commands of the run were built with, one for each call
\* of _get_qdisc_minor_id
MinorIdsUsed ==
    {history[i].command.classid.minor : i \in IssuedAt("rate_class")}
    \cup {history[i].command.parent.minor : i \in IssuedAt("netem")}
    \cup {Value(history[i].command.flowid).minor : i \in IssuedAt("filter")}

\* C15: within one set_shaping invocation each identifier is computed at most once:
\* every call of _get_qdisc_minor_id after the first returns the value of the
\* first, the value of _get_netem_qdisc_major_id is the one kept in the shaper,
\* each kind of listing is queried at most once and the minor id counter is
\* advanced at most once, although the commands issued in between change the
\* device.
C15_Memoized ==
    /\ show_count.class <= 1
    /\ show_count.qdisc <= 1
    /\ qdisc_minor_id_count <= 1
    /\ MinorIdsUsed # {} => MinorIdsUsed = {Value(qdisc_minor_id)}
    /\ \A i \in IssuedAt("netem") : history[i].command.handle = Value(netem_major_id)

\* the rate-limited class was created, so that a new scan of the listing would give
\* another id, and the later phases used the id of the first call
C15_Witness ==
    /\ ExecuteMode /\ AddMode
    /\ Done /\ result = Return(0)
    /\ \E i \in IssuedAt("rate_class") :
          /\ history[i].proc.returncode = 0
          /\ history[i].command.classid.minor \in TargetMinorIds
    /\ IssuedAt("netem") # {} /\ IssuedAt("filter") # {}
    /\ show_count = [class |-> 1, qdisc |-> 1]

-----------------------------------------------------------------------------
(* C16 *)

RetrySteps == {"root_qdisc", "default_class", "rate_class", "exclude_filter"}

\* C16: there are no retries: in one run of set_shaping each of the root
\* discipline, default class, rate-limited class and exclusion filter commands is
\* handed to the executor at most once, whatever exit code and stderr the executor
\* reports for it, and a phase that is over is not entered again.
C16_NoRetries ==
    /\ \A step \in RetrySteps : Cardinality(IssuedAt(step)) <= 1
    /\ \A i \in DOMAIN history :
          (history[i].step \in RetrySteps /\ Failed(history[i]))
              => \A j \in DOMAIN history : j > i => history[j].step # history[i].step

\* a run in which the root, the rate-limited class and the exclusion filter commands
\* all failed and none was issued again
C16_Witness ==
    /\ Done /\ result = Return(0)
    /\ \A step \in RetrySteps \ {"default_class"} :
          /\ Cardinality(IssuedAt(step)) = 1
          /\ \A i \in IssuedAt(step) : Failed(history[i])

-----------------------------------------------------------------------------
(* C19 *)

\* C19: in change mode, and in output-only mode, the rate-limited class minor id
\* one set_shaping invocation uses is always 2 (DEFAULT_CLASS_MINOR_ID + 1),
\* whatever classes the device already has: the class listing is not read, the
\* counter is advanced exactly once, and every command of the invocation is built
\* with that one id.
C19_MinorIdTwo ==
    (tc_obj.is_change_shaping_rule \/ ~ExecuteMode)
        => /\ MinorIdsUsed \subseteq {DEFAULT_CLASS_MINOR_ID + 1}
           /\ show_count.class = 0
           /\ qdisc_minor_id = None => qdisc_minor_id_count = 0
           /\ qdisc_minor_id # None
                 => /\ qdisc_minor_id = Some(DEFAULT_CLASS_MINOR_ID + 1)
                    /\ qdisc_minor_id_count = 1
                    /\ IssuedAt("rate_class") # {}

\* change mode on a device that already has a class 2: the invocation uses 2
C19_Witness ==
    /\ tc_obj.is_change_shaping_rule /\ ExecuteMode
    /\ 2 \in TargetMinorIds
    /\ Done
    /\ MinorIdsUsed = {2}
    /\ IssuedAt("filter") # {}

-----------------------------------------------------------------------------
(* C17 *)

\* the class commands of both invocations that succeeded
ClassesCreated(h) ==
    {h[i].command.classid.minor :
        i \in {j \in DOMAIN h : /\ h[j].step \in {"default_class", "rate_class"}
                                /\ h[j].proc.returncode = 0}}

\* both invocations have allocated their class minor id
BothAllocated ==
    /\ waiting # <<>>
    /\ qdisc_minor_id # None
    /\ Other.qdisc_minor_id # None

\* C17: two concurrent set_shaping invocations in execute add mode on one device
\* and qdisc major id take no lock between reading the class listing and creating
\* the class: as long as neither has created the class of the minor id it
\* allocated, the two have allocated the same minor id, and the state in which
\* both hand a class command with that same id to the executor is reachable.
C17_RaceCollides ==
    (/\ BothAllocated
     /\ (ClassesCreated(history) \cup ClassesCreated(Other.history))
            \cap {Value(qdisc_minor_id), Value(Other.qdisc_minor_id)} = {})
        => qdisc_minor_id = Other.qdisc_minor_id

\* both invocations have read the listing of a device that has the default class,
\* neither has handed its class command to the executor yet, and both hold the
\* minor id 2
C17_Witness ==
    /\ BothAllocated
    /\ TargetMinorIds = {1}
    /\ IssuedAt("rate_class") = {}
    /\ \A k \in DOMAIN Other.history : Other.history[k].step # "rate_class"
    /\ show_count.class = 1 /\ Other.show_count.class = 1
    /\ qdisc_minor_id = Some(2)
    /\ Other.qdisc_minor_id = Some(2)

-----------------------------------------------------------------------------
(* C18 *)

\* the first invocation is over and every class command it issued succeeded, the
\* rate-limited class command among them
FirstSucceeded ==
    /\ waiting # <<>>
    /\ Other.pc = "done"
    /\ \E k \in DOMAIN Other.history : Other.history[k].step = "rate_class"
    /\ \A k \in DOMAIN Other.history :
          Other.history[k].step \in {"default_class", "rate_class"}
              => Other.history[k].proc.returncode = 0

\* C18: when two set_shaping invocations in execute mode with the add flag run one
\* after the other on one device and qdisc major id, and the class commands of the
\* first succeeded, the second allocates a rate-limited class minor id that is
\* neither the first one's nor the default class id 1.
C18_SerializedDistinct ==
    (FirstSucceeded /\ qdisc_minor_id # None)
        => /\ qdisc_minor_id # Other.qdisc_minor_id
           /\ qdisc_minor_id # Some(DEFAULT_CLASS_MINOR_ID)
           /\ \A i \in IssuedAt("rate_class") :
                 /\ history[i].command.classid.minor # DEFAULT_CLASS_MINOR_ID
                 /\ history[i].command.classid.minor # Value(Other.qdisc_minor_id)

\* on a new device the first invocation created classes 1 and 2, and the second,
\* finding the root in place, created class 3
C18_Witness ==
    /\ FirstSucceeded
    /\ Other.qdisc_minor_id = Some(2)
    /\ RootFileExists
    /\ \E i \in IssuedAt("rate_class") :
          /\ history[i].command.classid.minor = 3
          /\ history[i].proc.returncode = 0

====
